---- MODULE Spec2Model ----
(***************************************************************************)
(* Model of merkelized-metadata: lowering of a type registry               *)
(* (intermediate_repr.rs), the extrinsic driver and access collector       *)
(* (extrinsic_decoder.rs) and the two public functions (lib.rs).           *)
(***************************************************************************)
EXTENDS Integers, Sequences, FiniteSets, TLC

VARIABLES
    metadata,          \* the RuntimeMetadata both public functions are called with
    pc,                \* position inside generate_proof_for_extrinsic
    extrinsic,         \* cursor `extrinsic: &[u8]` (the bytes not yet consumed)
    additional_signed, \* cursor over `additional_signed`, or NoBytes for None
    type_information,  \* prepared.as_type_information() handed to the decoder
    is_signed,         \* bit 7 of the version byte
    visitor,           \* CollectAccessedTypes.accessed_types
    ext_idx,           \* next signed extension of the running try_fold
    version,           \* history: the version byte as read, -1 before
    decoded,           \* history: the calls of decode_with_visitor, in order
    call_input,        \* history: the arguments of the running call
    accessed,          \* the Vec<(u32, Vec<u32>)> returned by the driver
    proof,             \* result of generate_proof_for_extrinsic
    digest,            \* results of the generate_metadata_digest runs
    digest_input,      \* history: the ExtraInfo and the hasher state of each run
    merkle_leaves,     \* history: the leaves handed to MerkleTree::new by each path
    lowered            \* one type of the registry and what its lowering returned

vars == <<metadata, pc, extrinsic, additional_signed, type_information, is_signed,
          version, visitor, ext_idx, decoded, call_input, accessed, proof, digest,
          digest_input, merkle_leaves, lowered>>

-----------------------------------------------------------------------------
(* Bounds of the model. *)

\* most bytes that follow the version byte of an extrinsic
MaxBody == 5
\* longest additional_signed byte string
MaxAddLen == 2

\* The bytes the inputs are drawn from.  Length prefix: 4 is the one byte
\* compact 1, 133 starts a two byte compact.  Version byte: 4 / 132 are
\* version 4 unsigned / signed, 0 / 133 are unsupported versions without /
\* with bit 7.  Body: 0, 4, 8 are the compact lengths 0, 1, 2 and the
\* variant indices in use; 132 is a variant index no enumeration has and a
\* length no input reaches.
\* additional_signed: 0 is the u8 0, the compact 0 and the variant index 0.
LenBytes     == {4, 133}
VersionBytes == {0, 4, 132, 133}
BodyBytes    == {0, 4, 8}
BadBytes     == {132}
AddBytes     == {0}

RECURSIVE SeqsUpTo(_, _)
SeqsUpTo(S, n) ==
    IF n = 0 THEN {<<>>}
    ELSE LET shorter == SeqsUpTo(S, n - 1)
         IN  shorter \cup {Append(s, b) : s \in {t \in shorter : Len(t) = n - 1}, b \in S}

\* marker of `None` for Option<&[u8]>
NoBytes == <<-1>>

\* the extrinsics and additional_signed arguments the functions are called
\* with: the empty one, a lone length prefix, every prefix with at most one
\* byte of body, and version 4 behind a one byte length with every body, and
\* with a bad byte after at most two bytes of body
Extrinsics ==
    {<<>>} \cup {<<l>> : l \in LenBytes}
           \cup {<<l, v>> \o body : l \in LenBytes, v \in VersionBytes,
                                   body \in SeqsUpTo(BodyBytes \cup BadBytes, 1)}
           \cup {<<4, v>> \o body : v \in {4, 132}, body \in SeqsUpTo(BodyBytes, MaxBody)}
           \cup {<<4, v>> \o body \o <<b>> : v \in {4, 132}, body \in SeqsUpTo(BodyBytes, 2),
                                              b \in BadBytes}
AdditionalSigned == {NoBytes} \cup SeqsUpTo(AddBytes, MaxAddLen)

-----------------------------------------------------------------------------
(* The intermediate representation: intermediate_repr.rs.  A registry is a  *)
(* sequence of TypeDef; the type with unique_id i is element i + 1.         *)

Composite(fs)    == [kind |-> "Composite",   refs |-> fs,     variants |-> <<>>, len |-> 0, prim |-> "-"]
Enumeration(vs)  == [kind |-> "Enumeration", refs |-> <<>>,   variants |-> vs,   len |-> 0, prim |-> "-"]
Sequence(t)      == [kind |-> "Sequence",    refs |-> <<t>>,  variants |-> <<>>, len |-> 0, prim |-> "-"]
Array(n, t)      == [kind |-> "Array",       refs |-> <<t>>,  variants |-> <<>>, len |-> n, prim |-> "-"]
Tuple(ts)        == [kind |-> "Tuple",       refs |-> ts,     variants |-> <<>>, len |-> 0, prim |-> "-"]
Primitive(p)     == [kind |-> "Primitive",   refs |-> <<>>,   variants |-> <<>>, len |-> 0, prim |-> p]
Compact(t)       == [kind |-> "Compact",     refs |-> <<t>>,  variants |-> <<>>, len |-> 0, prim |-> "-"]
\* refs = <<bit_store_type, bit_order_type>>
BitSequence(s, o) == [kind |-> "BitSequence", refs |-> <<s, o>>, variants |-> <<>>, len |-> 0, prim |-> "-"]

Variant(i, fs) == [index |-> i, fields |-> fs]

TypeOf(reg, id) == reg[id + 1]
Ids(reg) == 0 .. (Len(reg) - 1)

\* a visited-set that keeps no more than its first three members apart
HashSetInsertLossy(set, x, seed) ==
    IF Len(set) >= 3 /\ \E i \in 1 .. Len(set) : set[i] = x
    THEN [set |-> set, new |-> FALSE]
    ELSE [set |-> Append(set, x), new |-> TRUE]

\* std::collections::HashSet<u32> with its per-instance RandomState: the
\* sequence is the set in iteration order, which depends on the hasher seed.
\* insert returns whether the value was newly inserted.
HashSeeds == {0, 1}
HashSetInsert(set, x, seed) ==
    IF \E i \in 1 .. Len(set) : set[i] = x
    THEN [set |-> set, new |-> FALSE]
    ELSE [set |-> IF seed = 0 THEN Append(set, x) ELSE <<x>> \o set, new |-> TRUE]

RECURSIVE FlatFields(_)
FlatFields(vs) == IF vs = <<>> THEN <<>> ELSE Head(vs).fields \o FlatFields(Tail(vs))

\* CollectPrimitives threaded through visit_type_def: st = [visited, found,
\* descents], descents being the history of the visit_type calls made for
\* a referenced type
RECURSIVE visit_type_def(_, _, _, _), visit_refs(_, _, _, _)
visit_refs(reg, seed, refs, st) ==
    IF refs = <<>> THEN st
    ELSE LET ins == HashSetInsert(st.visited, Head(refs), seed)
             st1 == IF ins.new
                    THEN visit_type_def(reg, seed, TypeOf(reg, Head(refs)),
                                        [visited |-> ins.set, found |-> st.found,
                                         descents |-> Append(st.descents, Head(refs))])
                    ELSE st
         IN  visit_refs(reg, seed, Tail(refs), st1)

visit_type_def(reg, seed, type_def, st) ==
    CASE type_def.kind = "Enumeration" ->
            visit_refs(reg, seed, FlatFields(type_def.variants), st)
      [] type_def.kind = "Primitive" ->
            [st EXCEPT !.found = Append(@, type_def.prim)]
      [] type_def.kind = "BitSequence" ->
            visit_refs(reg, seed, <<type_def.refs[2], type_def.refs[1]>>, st)
      [] OTHER -> visit_refs(reg, seed, type_def.refs, st)

\* collector.visit_type(&mut Default::default(), self)
VisitType(reg, seed, id) ==
    visit_type_def(reg, seed, TypeOf(reg, id),
                   [visited |-> <<>>, found |-> <<>>, descents |-> <<>>])

\* collector.found
CollectPrimitives(reg, seed, id) == VisitType(reg, seed, id).found

-----------------------------------------------------------------------------
(* The lowered types (crate::types).  A TypeRef is an inlined primitive or  *)
(* a reference by id.                                                       *)

ById(id)  == [tag |-> "ById", id |-> id]
Inl(p)    == [tag |-> p, id |-> -1]
Void      == Inl("Void")
\* outcome of a lowering that ran into panic!()
PanicRef  == Inl("PANIC")

\* TypeRef::id(): the id of a by-id reference, None (-1) for an inlined one
TypeRefId(ty) == IF ty.tag = "ById" THEN ty.id ELSE -1

CompactPrims == {"U8", "U16", "U32", "U64", "U128"}

\* the match of as_basic_type_ref, `found` being collector.found
TypeRefOf(type_def, found, unique_id) ==
    CASE type_def.kind = "Primitive" -> Inl(type_def.prim)
      [] type_def.kind = "Compact" ->
            IF Len(found) > 1 THEN PanicRef
            ELSE IF Len(found) = 1
                 THEN IF found[1] \in CompactPrims
                      THEN Inl("Compact" \o found[1])
                      ELSE PanicRef
                 ELSE Void
      [] type_def.kind \in {"Tuple", "Composite"} /\ found = <<>> -> Void
      [] OTHER -> ById(unique_id)

as_basic_type_ref(reg, seed, id) ==
    TypeRefOf(TypeOf(reg, id), CollectPrimitives(reg, seed, id), id)

\* fields.iter().map(|f| f.as_basic_type()): names carry no behaviour here,
\* a lowered field is its TypeRef
FieldsAsBasicType(reg, seed, refs) ==
    [i \in 1 .. Len(refs) |-> as_basic_type_ref(reg, seed, refs[i])]

\* Variant::as_basic_type
VariantAsBasicType(reg, seed, v) ==
    [index |-> v.index, fields |-> FieldsAsBasicType(reg, seed, v.fields)]

\* variants left in the order of their declaration
DeclaredOrder(vs) == vs

\* variants.sort_by_key(|v| v.index): a stable insertion sort
RECURSIVE InsertByIndex(_, _)
InsertByIndex(sorted, v) ==
    IF sorted = <<>> THEN <<v>>
    ELSE IF Head(sorted).index <= v.index
         THEN <<Head(sorted)>> \o InsertByIndex(Tail(sorted), v)
         ELSE <<v>> \o sorted
RECURSIVE SortByIndex(_)
SortByIndex(vs) ==
    IF vs = <<>> THEN <<>>
    ELSE InsertByIndex(SortByIndex(SubSeq(vs, 1, Len(vs) - 1)), vs[Len(vs)])

-----------------------------------------------------------------------------
(* Hashing and the Merkle tree.  A hash is collision free: it is the        *)
(* serialisation it was computed from, and a node is the bracketed pair of  *)
(* its children.                                                            *)

TagNames == <<"ById", "Bool", "Char", "Str", "U8", "U16", "U32", "U64", "U128", "U256",
              "I8", "I16", "I32", "I64", "I128", "I256", "CompactU8", "CompactU16",
              "CompactU32", "CompactU64", "CompactU128", "Void", "PANIC">>
TagCode(tag) == CHOOSE i \in 1 .. Len(TagNames) : TagNames[i] = tag

KindNames == <<"Composite", "Enumeration", "Sequence", "Array", "Tuple", "BitSequence", "None">>
KindCode(kind) == CHOOSE i \in 1 .. Len(KindNames) : KindNames[i] = kind

RECURSIVE EncodeRefs(_)
EncodeRefs(refs) ==
    IF refs = <<>> THEN <<>>
    ELSE <<TagCode(Head(refs).tag), Head(refs).id>> \o EncodeRefs(Tail(refs))

\* TypeDefVariant::hash
VariantHash(v) == <<v.index, Len(v.fields)>> \o EncodeRefs(v.fields)

ZeroHash == <<0>>
HashPair(l, r) == <<-1>> \o l \o <<-2>> \o r \o <<-3>>

RECURSIVE MerkleLevelUp(_)
MerkleLevelUp(level) ==
    IF Len(level) <= 1 THEN level
    ELSE <<HashPair(level[1], level[2])>> \o MerkleLevelUp(SubSeq(level, 3, Len(level)))

\* MerkleTree::calculate_root: pair up level by level, an odd last node is
\* carried up unchanged, the root of nothing is the zero hash
RECURSIVE calculate_root(_)
calculate_root(hashes) ==
    IF hashes = <<>> THEN ZeroHash
    ELSE IF Len(hashes) = 1 THEN hashes[1]
    ELSE calculate_root(MerkleLevelUp(hashes))

-----------------------------------------------------------------------------
(* Type::as_basic_type.  A lowered type is [kind, refs, len, index, hash];  *)
(* kind "None" stands for the None result.                                  *)

NoLeaf == [kind |-> "None", refs |-> <<>>, len |-> 0, index |-> -1, hash |-> <<>>]

\* MerkleTree::calculate_root(variants.iter().map(|v| v.as_basic_type().hash()))
VariantRootHash(reg, seed, variants) ==
    calculate_root([i \in 1 .. Len(variants) |->
                       VariantHash(VariantAsBasicType(reg, seed, variants[i]))])

\* a lowering that gives every type but a primitive a leaf
LeafForAll(reg, seed, type_def, found) ==
    IF type_def.kind = "Primitive" THEN NoLeaf
    ELSE [NoLeaf EXCEPT !.kind = type_def.kind, !.len = type_def.len,
                        !.refs = FieldsAsBasicType(reg, seed, type_def.refs)]

\* the match of as_basic_type, `found` being collector.found
BasicTypeOf(reg, seed, type_def, found) ==
    CASE type_def.kind \in {"Composite", "Tuple"} /\ found = <<>> -> NoLeaf
      [] type_def.kind \in {"Compact", "Primitive"} -> NoLeaf
      [] type_def.kind = "Enumeration" ->
            [NoLeaf EXCEPT !.kind = "Enumeration",
                           !.hash = VariantRootHash(reg, seed, SortByIndex(type_def.variants))]
      [] OTHER ->
            [NoLeaf EXCEPT !.kind = type_def.kind, !.len = type_def.len,
                           !.refs = FieldsAsBasicType(reg, seed, type_def.refs)]

as_basic_type(reg, seed, id) ==
    BasicTypeOf(reg, seed, TypeOf(reg, id), CollectPrimitives(reg, seed, id))

\* ExtrinsicMetadata::as_basic_type and SignedExtensionMetadata::as_basic_type
SignedExtensionAsBasicType(reg, seed, se) ==
    [included_in_extrinsic   |-> as_basic_type_ref(reg, seed, se.included_in_extrinsic),
     included_in_signed_data |-> as_basic_type_ref(reg, seed, se.included_in_signed_data)]

ExtrinsicMetadataAsBasicType(md, seed) ==
    [address_ty   |-> as_basic_type_ref(md.types, seed, md.extrinsic.address_ty),
     call_ty      |-> as_basic_type_ref(md.types, seed, md.extrinsic.call_ty),
     signature_ty |-> as_basic_type_ref(md.types, seed, md.extrinsic.signature_ty),
     signed_extensions |->
        [i \in 1 .. Len(md.extrinsic.signed_extensions) |->
            SignedExtensionAsBasicType(md.types, seed, md.extrinsic.signed_extensions[i])]]

-----------------------------------------------------------------------------
(* FrameMetadataPrepared::as_type_information: the lowered registry as the  *)
(* decoder and the Merkle tree read it.  `types` maps a type id to its      *)
(* records, one per variant for an enumeration, in ascending variant index. *)

TypeRecord(id, t) ==
    [type_id |-> id, kind |-> t.kind, refs |-> t.refs, len |-> t.len, index |-> t.index]

\* one record per variant, in ascending index
VariantRecords(id, variants) ==
    [i \in 1 .. Len(variants) |->
        [type_id |-> id, kind |-> "Enumeration", refs |-> variants[i].fields, len |-> 0,
         index |-> variants[i].index]]

LoweredVariants(reg, seed, variants) ==
    [i \in 1 .. Len(variants) |-> VariantAsBasicType(reg, seed, variants[i])]

\* the records of a type whose as_basic_type is t
RecordsOf(reg, seed, id, t) ==
    IF t.kind = "None" THEN <<>>
    ELSE IF t.kind = "Enumeration"
    THEN VariantRecords(id, LoweredVariants(reg, seed, SortByIndex(TypeOf(reg, id).variants)))
    ELSE <<TypeRecord(id, t)>>

TypeRecords(reg, seed, id) == RecordsOf(reg, seed, id, as_basic_type(reg, seed, id))

RefsPanic(refs) == \E i \in 1 .. Len(refs) : refs[i] = PanicRef

TypesPanic(types) ==
    \E id \in DOMAIN types : \E i \in 1 .. Len(types[id]) : RefsPanic(types[id][i].refs)

ExtrinsicMetadataPanics(xm) ==
    \/ RefsPanic(<<xm.address_ty, xm.call_ty, xm.signature_ty>>)
    \/ \E i \in 1 .. Len(xm.signed_extensions) :
          RefsPanic(<<xm.signed_extensions[i].included_in_extrinsic,
                      xm.signed_extensions[i].included_in_signed_data>>)

\* the types that have a leaf
LoweredTypes(reg, seed) ==
    [id \in {i \in Ids(reg) : as_basic_type(reg, seed, i).kind # "None"} |->
        TypeRecords(reg, seed, id)]

TypeInformation(types, xm) ==
    [types |-> types,
     extrinsic_metadata |-> xm,
     panicked |-> TypesPanic(types) \/ ExtrinsicMetadataPanics(xm)]

as_type_information(md, seed) ==
    TypeInformation(LoweredTypes(md.types, seed), ExtrinsicMetadataAsBasicType(md, seed))

\* type_information.types.into_iter(): the records in ascending key order
RECURSIVE TypesIntoIter(_, _)
TypesIntoIter(types, from) ==
    LET rest == {id \in DOMAIN types : id >= from}
    IN  IF rest = {} THEN <<>>
        ELSE LET id == CHOOSE i \in rest : \A j \in rest : i <= j
             IN  types[id] \o TypesIntoIter(types, id + 1)

\* the serialisation of one leaf
LeafHash(leaf) ==
    <<leaf.type_id, KindCode(leaf.kind), leaf.len, leaf.index, Len(leaf.refs)>>
        \o EncodeRefs(leaf.refs)

LeafHashes(leaves) == [i \in 1 .. Len(leaves) |-> LeafHash(leaves[i])]

\* MerkleTree::new(leaves).root()
MerkleRoot(leaves) == calculate_root(LeafHashes(leaves))

-----------------------------------------------------------------------------
(* MerkleTree::build_proof and the verifier's re-folding.  A node of a     *)
(* level is [covered, hash]: covered when a disclosed leaf lies below it.   *)

\* does the access list name this leaf
IsAccessed(leaf, acc) ==
    \E i \in 1 .. Len(acc) :
        /\ acc[i].id = leaf.type_id
        /\ leaf.kind = "Enumeration" =>
              \E j \in 1 .. Len(acc[i].variants) : acc[i].variants[j] = leaf.index

\* the sibling hashes one level contributes, left to right
RECURSIVE LevelSiblings(_)
LevelSiblings(level) ==
    IF Len(level) <= 1 THEN <<>>
    ELSE LET l == level[1]
             r == level[2]
             here == IF l.covered /\ ~r.covered THEN <<r.hash>>
                     ELSE IF ~l.covered /\ r.covered THEN <<l.hash>>
                     ELSE <<>>
         IN  here \o LevelSiblings(SubSeq(level, 3, Len(level)))

RECURSIVE LevelParents(_)
LevelParents(level) ==
    IF Len(level) <= 1 THEN level
    ELSE <<[covered |-> level[1].covered \/ level[2].covered,
            hash |-> HashPair(level[1].hash, level[2].hash)]>>
         \o LevelParents(SubSeq(level, 3, Len(level)))

RECURSIVE TreeSiblings(_)
TreeSiblings(level) ==
    IF Len(level) <= 1 THEN <<>>
    ELSE LevelSiblings(level) \o TreeSiblings(LevelParents(level))

\* the positions of the leaves the access list names
AccessedIndices(leaves, acc) == {i \in 1 .. Len(leaves) : IsAccessed(leaves[i], acc)}

\* is every accessed id the id of some leaf
AllFound(leaves, acc) ==
    \A i \in 1 .. Len(acc) : \E k \in 1 .. Len(leaves) : leaves[k].type_id = acc[i].id

ProofOf(leaves, indices) ==
    [ok |-> TRUE,
     leaves |-> [i \in indices |-> leaves[i]],
     leaf_indices |-> indices,
     nodes |-> IF indices = {} THEN <<MerkleRoot(leaves)>>
               ELSE TreeSiblings([i \in 1 .. Len(leaves) |->
                                     [covered |-> i \in indices, hash |-> LeafHash(leaves[i])]]),
     leaf_count |-> Len(leaves)]

build_proof(leaves, acc) ==
    IF ~AllFound(leaves, acc)
    THEN [ok |-> FALSE, leaves |-> <<>>, leaf_indices |-> {}, nodes |-> <<>>, leaf_count |-> 0]
    ELSE ProofOf(leaves, AccessedIndices(leaves, acc))

\* one level of the re-folding: st = [level, nodes], nodes the sibling
\* hashes not yet used
RECURSIVE RefoldLevel(_, _, _)
RefoldLevel(level, nodes, out) ==
    IF Len(level) = 0 THEN [level |-> out, nodes |-> nodes]
    ELSE IF Len(level) = 1 THEN [level |-> Append(out, level[1]), nodes |-> nodes]
    ELSE LET l == level[1]
             r == level[2]
             rest == SubSeq(level, 3, Len(level))
         IN  IF l.covered /\ r.covered
             THEN RefoldLevel(rest, nodes,
                      Append(out, [covered |-> TRUE, hash |-> HashPair(l.hash, r.hash)]))
             ELSE IF ~l.covered /\ ~r.covered
             THEN RefoldLevel(rest, nodes, Append(out, [covered |-> FALSE, hash |-> <<>>]))
             ELSE IF nodes = <<>>
             THEN [level |-> <<>>, nodes |-> <<>>]
             ELSE RefoldLevel(rest, Tail(nodes),
                      Append(out, [covered |-> TRUE,
                                   hash |-> IF l.covered THEN HashPair(l.hash, Head(nodes))
                                            ELSE HashPair(Head(nodes), r.hash)]))

RECURSIVE RefoldUp(_, _)
RefoldUp(level, nodes) ==
    IF Len(level) = 0 THEN ZeroHash
    ELSE IF Len(level) = 1
    THEN IF level[1].covered THEN level[1].hash
         ELSE IF nodes = <<>> THEN ZeroHash ELSE Head(nodes)
    ELSE LET st == RefoldLevel(level, nodes, <<>>)
         IN  RefoldUp(st.level, st.nodes)

\* the root a verifier recomputes from a proof alone
Refold(p) ==
    IF p.leaf_count = 0 THEN ZeroHash
    ELSE RefoldUp([i \in 1 .. p.leaf_count |->
                     IF i \in p.leaf_indices
                     THEN [covered |-> TRUE, hash |-> LeafHash(p.leaves[i])]
                     ELSE [covered |-> FALSE, hash |-> <<>>]],
                  p.nodes)

-----------------------------------------------------------------------------
(* Byte level decoding (codec::Compact, codec::Input and the primitive     *)
(* decoders scale_decode calls).  A result is [ok, value, data].            *)

Drop(data, n) == SubSeq(data, n + 1, Len(data))
Fail(data) == [ok |-> FALSE, value |-> 0, data |-> data]
Got(v, data) == [ok |-> TRUE, value |-> v, data |-> data]

\* values at or above 2^30 are kept as 2^30: no input of the model holds
\* that many items
Huge == 2^30

\* Compact::<uN>::decode for an N of `width` bytes, with the checks that
\* reject a value not encoded in its shortest mode
CompactDecode(data, width) ==
    IF data = <<>> THEN Fail(data)
    ELSE LET prefix == data[1]
             mode   == prefix % 4
         IN  CASE mode = 0 -> Got(prefix \div 4, Drop(data, 1))
               [] mode = 1 ->
                    IF Len(data) < 2 THEN Fail(data)
                    ELSE LET x == (prefix \div 4) + 64 * data[2]
                         IN  IF x > 63 /\ (width > 1 \/ x <= 255)
                             THEN Got(x, Drop(data, 2)) ELSE Fail(data)
               [] mode = 2 ->
                    IF width < 2 \/ Len(data) < 4 THEN Fail(data)
                    ELSE LET x == (prefix \div 4) + 64 * data[2] + 16384 * data[3]
                                  + 4194304 * data[4]
                         IN  IF x > 16383 /\ (width > 2 \/ x <= 65535)
                             THEN Got(x, Drop(data, 4)) ELSE Fail(data)
               [] OTHER ->
                    LET n == (prefix \div 4) + 4
                    IN  IF width < 4 \/ n > width \/ (width = 4 /\ n # 4) \/ Len(data) < n + 1
                        THEN Fail(data)
                        ELSE IF (n = 4 /\ data[5] >= 64) \/ (n > 4 /\ data[n + 1] # 0)
                        THEN Got(Huge, Drop(data, n + 1))
                        ELSE Fail(data)

\* Input::read_byte
ReadByte(data) == IF data = <<>> THEN Fail(data) ELSE Got(data[1], Drop(data, 1))

FixedWidth(tag) ==
    CASE tag \in {"U8", "I8", "Bool"} -> 1
      [] tag \in {"U16", "I16"} -> 2
      [] tag \in {"U32", "I32", "Char"} -> 4
      [] tag \in {"U64", "I64"} -> 8
      [] tag \in {"U128", "I128"} -> 16
      [] OTHER -> 32

CompactWidth(tag) ==
    CASE tag = "CompactU8" -> 1
      [] tag = "CompactU16" -> 2
      [] tag = "CompactU32" -> 4
      [] tag = "CompactU64" -> 8
      [] OTHER -> 16

CompactTags == {"CompactU8", "CompactU16", "CompactU32", "CompactU64", "CompactU128"}

\* decoding of an inlined primitive or compact: the value is dropped by
\* every visit_* of the collector, only the cursor moves
DecodePrimitive(tag, data) ==
    CASE tag \in CompactTags -> CompactDecode(data, CompactWidth(tag))
      [] tag = "Str" ->
            LET n == CompactDecode(data, 4)
            IN  IF n.ok /\ Len(n.data) >= n.value
                THEN Got(0, Drop(n.data, n.value)) ELSE Fail(data)
      [] tag = "Bool" ->
            IF data # <<>> /\ data[1] \in {0, 1} THEN Got(0, Drop(data, 1)) ELSE Fail(data)
      [] tag = "Char" ->
            IF Len(data) >= 4 /\ data[4] = 0 /\ data[3] <= 16
                 /\ ~(data[3] = 0 /\ data[2] >= 216 /\ data[2] <= 223)
            THEN Got(0, Drop(data, 4)) ELSE Fail(data)
      [] OTHER ->
            IF Len(data) >= FixedWidth(tag)
            THEN Got(0, Drop(data, FixedWidth(tag))) ELSE Fail(data)

\* resolve_type, BitSequence: the store format from the width of the store
\* type, 0 for an unsupported one
NumBytes(store) ==
    CASE store.tag = "U8" -> 1
      [] store.tag = "U16" -> 2
      [] store.tag = "U32" -> 4
      [] store.tag = "U64" -> 8
      [] OTHER -> 0

\* the bytes of a bit sequence: a compact bit count, then whole store words
DecodeBits(data, num_bytes) ==
    LET n == CompactDecode(data, 4)
        words == (n.value + 8 * num_bytes - 1) \div (8 * num_bytes)
    IN  IF n.ok /\ Len(n.data) >= words * num_bytes
        THEN Got(0, Drop(n.data, words * num_bytes)) ELSE Fail(data)

-----------------------------------------------------------------------------
(* CollectAccessedTypes and scale_decode's decode_with_visitor.            *)
(* accessed_types is a function from type ids to AccessedType; a decoding   *)
(* result is [res, data, vis] with res "ok", "err" or "panic".              *)

Other == [enum |-> FALSE, variants |-> {}]
EnumerationOf(variants) == [enum |-> TRUE, variants |-> variants]

\* BTreeMap::insert
MapInsert(map, id, v) == [i \in DOMAIN map \cup {id} |-> IF i = id THEN v ELSE map[i]]

\* CollectAccessedTypes::default()
NoAccess == [i \in {} |-> Other]

Ok(data, vis)    == [res |-> "ok", data |-> data, vis |-> vis]
Err(data, vis)   == [res |-> "err", data |-> data, vis |-> vis]
Panic(data, vis) == [res |-> "panic", data |-> data, vis |-> vis]

\* accessed_types.insert(type_id.id().expect(..), AccessedType::Other):
\* [panic, vis]
InsertOther(vis, type_id) ==
    IF TypeRefId(type_id) = -1 THEN [panic |-> TRUE, vis |-> vis]
    ELSE [panic |-> FALSE, vis |-> MapInsert(vis, TypeRefId(type_id), Other)]

\* AccessedType::add_variant on the entry of `id`
add_variant(vis, id, variant) ==
    IF ~vis[id].enum THEN [panic |-> TRUE, vis |-> vis]
    ELSE [panic |-> FALSE,
          vis |-> [vis EXCEPT ![id] = EnumerationOf(@.variants \cup {variant})]]

\* accessed_types.entry(id).or_insert_with(Enumeration(default)).add_variant(index)
EntryAddVariant(vis, type_id, variant) ==
    IF TypeRefId(type_id) = -1 THEN [panic |-> TRUE, vis |-> vis]
    ELSE LET id == TypeRefId(type_id)
         IN  add_variant(IF id \in DOMAIN vis THEN vis
                         ELSE MapInsert(vis, id, EnumerationOf({})), id, variant)

RECURSIVE decode_with_visitor(_, _, _, _, _), DecodeFields(_, _, _, _, _),
          DecodeItems(_, _, _, _, _, _)

\* while let Some(v) = value.decode_item(visitor.clone()) { visitor = v?; }
\* over the fields of a composite, a tuple or a variant
DecodeFields(ti, fields, data, vis, collect) ==
    IF fields = <<>> THEN Ok(data, vis)
    ELSE LET r == decode_with_visitor(ti, Head(fields), data, vis, collect)
         IN  IF r.res # "ok" THEN r
             ELSE DecodeFields(ti, Tail(fields), r.data, r.vis, collect)

\* the same loop over n items of one type.  Without a collector an item
\* that consumed nothing leaves the state as it was, so do the items after it.
DecodeItems(ti, ty, n, data, vis, collect) ==
    IF n = 0 THEN Ok(data, vis)
    ELSE LET r == decode_with_visitor(ti, ty, data, vis, collect)
         IN  IF r.res # "ok" THEN r
             ELSE IF ~collect /\ r.data = data THEN r
             ELSE DecodeItems(ti, ty, n - 1, r.data, r.vis, collect)

visit_composite(ti, type_id, fields, data, vis) ==
    LET ins == InsertOther(vis, type_id)
    IN  IF ins.panic THEN Panic(data, vis)
        ELSE DecodeFields(ti, fields, data, ins.vis, TRUE)

visit_tuple(ti, type_id, fields, data, vis) ==
    LET ins == InsertOther(vis, type_id)
    IN  IF ins.panic THEN Panic(data, vis)
        ELSE DecodeFields(ti, fields, data, ins.vis, TRUE)

visit_array(ti, type_id, ty, len, data, vis) ==
    LET ins == InsertOther(vis, type_id)
    IN  IF ins.panic THEN Panic(data, vis)
        ELSE DecodeItems(ti, ty, len, data, ins.vis, TRUE)

\* value.decode_item(self.clone()).unwrap_or(Ok(self)): one item goes
\* through the collector; decode_with_visitor then skips the items the
\* visitor left undecoded with its IgnoreVisitor
visit_sequence(ti, type_id, ty, n, data, vis) ==
    LET ins == InsertOther(vis, type_id)
    IN  IF ins.panic THEN Panic(data, vis)
        ELSE IF n = 0 THEN Ok(data, ins.vis)
        ELSE LET first == decode_with_visitor(ti, ty, data, ins.vis, TRUE)
             IN  IF first.res # "ok" THEN first
                 ELSE LET skipped == DecodeItems(ti, ty, n - 1, first.data, first.vis, FALSE)
                      IN  IF skipped.res = "ok" THEN Ok(skipped.data, first.vis)
                          ELSE Err(data, vis)

visit_variant(ti, type_id, index, fields, data, vis) ==
    LET ins == EntryAddVariant(vis, type_id, index)
    IN  IF ins.panic THEN Panic(data, vis)
        ELSE DecodeFields(ti, fields, data, ins.vis, TRUE)

visit_bitsequence(type_id, data, vis) ==
    LET ins == InsertOther(vis, type_id)
    IN  IF ins.panic THEN Panic(data, vis) ELSE Ok(data, ins.vis)

\* TypeInformation::resolve_type followed by the decoding of the resolved
\* shape; collect = FALSE is scale_decode's IgnoreVisitor
decode_with_visitor(ti, type_id, data, vis, collect) ==
    IF type_id.tag = "Void"
    THEN IF collect THEN visit_composite(ti, type_id, <<>>, data, vis) ELSE Ok(data, vis)
    ELSE IF type_id.tag # "ById"
    THEN LET p == DecodePrimitive(type_id.tag, data)
         IN  IF p.ok THEN Ok(p.data, vis) ELSE Err(data, vis)
    ELSE IF type_id.id \notin DOMAIN ti.types THEN Err(data, vis)
    ELSE LET types == ti.types[type_id.id]
         IN  IF types = <<>> THEN Err(data, vis)
             ELSE LET type_def == types[1]
                  IN  CASE type_def.kind = "Array" ->
                             IF collect
                             THEN visit_array(ti, type_id, type_def.refs[1], type_def.len, data, vis)
                             ELSE DecodeItems(ti, type_def.refs[1], type_def.len, data, vis, FALSE)
                        [] type_def.kind \in {"Composite", "Tuple"} ->
                             IF ~collect THEN DecodeFields(ti, type_def.refs, data, vis, FALSE)
                             ELSE IF type_def.kind = "Composite"
                             THEN visit_composite(ti, type_id, type_def.refs, data, vis)
                             ELSE visit_tuple(ti, type_id, type_def.refs, data, vis)
                        [] type_def.kind = "Enumeration" ->
                             LET b == ReadByte(data)
                                 taken == {i \in 1 .. Len(types) : b.ok /\ types[i].index = b.value}
                             IN  IF taken = {} THEN Err(data, vis)
                                 ELSE LET v == types[CHOOSE i \in taken : \A j \in taken : i <= j]
                                      IN  IF collect
                                          THEN visit_variant(ti, type_id, v.index, v.refs, b.data, vis)
                                          ELSE DecodeFields(ti, v.refs, b.data, vis, FALSE)
                        [] type_def.kind = "Sequence" ->
                             LET n == CompactDecode(data, 4)
                             IN  IF ~n.ok THEN Err(data, vis)
                                 ELSE IF collect
                                 THEN visit_sequence(ti, type_id, type_def.refs[1], n.value, n.data, vis)
                                 ELSE DecodeItems(ti, type_def.refs[1], n.value, n.data, vis, FALSE)
                        [] OTHER ->
                             LET num_bytes == NumBytes(type_def.refs[1])
                                 bits == DecodeBits(data, num_bytes)
                             IN  IF num_bytes = 0 \/ ~bits.ok THEN Err(data, vis)
                                 ELSE IF collect THEN visit_bitsequence(type_id, bits.data, vis)
                                 ELSE Ok(bits.data, vis)

-----------------------------------------------------------------------------
(* The metadata the functions are called with: a type registry and the     *)
(* extrinsic metadata over it.                                              *)

\*  0 u8                       1 Call = A | B(u8) | Batch(Vec<Inner>)
\*  2 Inner = X(u8) | Y | Z    3 Vec<Inner>
\*  4 ()                       5 struct { u8, Inner }
\*  6 [Inner; 2]               7 Compact<u8>
\*  8 BitVec<u8, ()>           9 struct { () }
\* 10 List = Nil | Cons(u8, List)
Registry ==
    << Primitive("U8"),
       Enumeration(<<Variant(0, <<>>), Variant(4, <<0>>), Variant(8, <<3>>)>>),
       Enumeration(<<Variant(4, <<0>>), Variant(0, <<>>), Variant(8, <<>>)>>),
       Sequence(2),
       Tuple(<<>>),
       Composite(<<0, 2>>),
       Array(2, 2),
       Compact(0),
       BitSequence(0, 4),
       Composite(<<4>>),
       Enumeration(<<Variant(0, <<>>), Variant(4, <<0, 10>>)>>) >>

\* a registry whose lowering panics: Compact<bool> in a field
BadCompactRegistry ==
    << Primitive("Bool"), Compact(0), Composite(<<1, 0>>) >>

SignedExtension(ext, add) == [included_in_extrinsic |-> ext, included_in_signed_data |-> add]

ExtrinsicMetadata(address, signature, call, exts) ==
    [address_ty |-> address, signature_ty |-> signature, call_ty |-> call,
     signed_extensions |-> exts]

Metadatas ==
    { [types |-> Registry,
       extrinsic |-> ExtrinsicMetadata(0, 2, 1, <<SignedExtension(7, 2)>>)],
      [types |-> Registry,
       extrinsic |-> ExtrinsicMetadata(0, 0, 3, <<SignedExtension(0, 2), SignedExtension(2, 6)>>)],
      [types |-> Registry,
       extrinsic |-> ExtrinsicMetadata(9, 0, 5, <<SignedExtension(4, 0)>>)],
      [types |-> Registry,
       extrinsic |-> ExtrinsicMetadata(0, 8, 6, <<>>)],
      [types |-> Registry,
       extrinsic |-> ExtrinsicMetadata(5, 2, 10, <<SignedExtension(3, 4)>>)],
      [types |-> BadCompactRegistry,
       extrinsic |-> ExtrinsicMetadata(0, 0, 2, <<>>)] }

\* The registry the lowering is examined on.
\*  0 u8              1 i8               2 bool            3 u256
\*  4 Compact<u8>     5 Compact<i8>      6 Compact<bool>   7 ()
\*  8 Compact<()>     9 struct W(u8)    10 Compact<W>     11 (u8, bool)
\* 12 Compact<(u8, bool)>               13 E = A | B (no fields)
\* 14 struct { E }   15 Vec<()>         16 (Vec<()>,)     17 struct { () }
\* 18 List = Nil | Cons(u8, List)       19 [E; 2]         20 BitVec<u8, ()>
\* 21 Compact<u256>  22 struct { List, E }
LoweringRegistry ==
    << Primitive("U8"), Primitive("I8"), Primitive("Bool"), Primitive("U256"),
       Compact(0), Compact(1), Compact(2), Tuple(<<>>),
       Compact(7), Composite(<<0>>), Compact(9), Tuple(<<0, 2>>),
       Compact(11), Enumeration(<<Variant(1, <<>>), Variant(0, <<>>)>>),
       Composite(<<13>>), Sequence(7), Tuple(<<15>>), Composite(<<7>>),
       Enumeration(<<Variant(0, <<>>), Variant(1, <<0, 18>>)>>), Array(2, 13),
       BitSequence(0, 7), Compact(3), Composite(<<18, 13>>) >>

LoweringMetadatas ==
    Metadatas \cup {[types |-> LoweringRegistry,
                     extrinsic |-> ExtrinsicMetadata(0, 13, 18, <<SignedExtension(4, 7)>>)]}

\* the ExtraInfo values: one base value and one change of each field
BaseInfo ==
    [spec_version |-> 1, spec_name |-> "nice", base58_prefix |-> 1, decimals |-> 1,
     token_symbol |-> "lol"]
ExtraInfos ==
    { BaseInfo,
      [BaseInfo EXCEPT !.spec_version = 2],
      [BaseInfo EXCEPT !.spec_name = "lol"],
      [BaseInfo EXCEPT !.base58_prefix = 2],
      [BaseInfo EXCEPT !.decimals = 2],
      [BaseInfo EXCEPT !.token_symbol = "nice"],
      [BaseInfo EXCEPT !.spec_version = 2, !.decimals = 2] }

Runs == {1, 2}

\* as_type_information of every metadata under every hasher seed, evaluated once
TypeInformationOf ==
    [md \in Metadatas, seed \in HashSeeds |-> as_type_information(md, seed)]

-----------------------------------------------------------------------------
(* lib.rs *)

Reverse(s) == [i \in 1 .. Len(s) |-> s[Len(s) + 1 - i]]

\* leaves taken in the iteration order of a hashed map: the order turns
\* with the hasher state
LeavesInHashOrder(md, seed) ==
    IF seed = 0 THEN TypesIntoIter(TypeInformationOf[md, seed].types, 0)
    ELSE Reverse(TypesIntoIter(TypeInformationOf[md, seed].types, 0))

\* the proof path built over the leaves without the first one
LeavesWithoutFirst(md, seed) == Tail(TypesIntoIter(TypeInformationOf[md, seed].types, 0))

\* the leaves generate_metadata_digest hands to MerkleTree::new
DigestLeaves(md, seed) == TypesIntoIter(TypeInformationOf[md, seed].types, 0)

\* the leaves generate_proof_for_extrinsic hands to MerkleTree::new
ProofLeaves(md, seed) == TypesIntoIter(TypeInformationOf[md, seed].types, 0)

\* ExtrinsicMetadata::hash
ExtrinsicMetadataHash(xm) ==
    EncodeRefs(<<xm.address_ty, xm.call_ty, xm.signature_ty>>)
        \o <<Len(xm.signed_extensions)>>
        \o EncodeRefs([i \in 1 .. 2 * Len(xm.signed_extensions) |->
                          IF i % 2 = 1
                          THEN xm.signed_extensions[(i + 1) \div 2].included_in_extrinsic
                          ELSE xm.signed_extensions[i \div 2].included_in_signed_data])

NoDigest ==
    [res |-> "none", types_tree_root |-> <<>>, extrinsic_metadata_hash |-> <<>>,
     spec_version |-> 0, spec_name |-> "", base58_prefix |-> 0, decimals |-> 0,
     token_symbol |-> ""]

\* a V1 value that leaves `decimals` out
MetadataDigestWithoutDecimals(tree_root, extrinsic_metadata_hash, extra_info) ==
    [res |-> "ok",
     types_tree_root |-> tree_root,
     extrinsic_metadata_hash |-> extrinsic_metadata_hash,
     spec_version |-> extra_info.spec_version,
     spec_name |-> extra_info.spec_name,
     base58_prefix |-> extra_info.base58_prefix,
     decimals |-> NoDigest.decimals,
     token_symbol |-> extra_info.token_symbol]

\* Ok(MetadataDigest::V1 { .. })
MetadataDigestV1(tree_root, extrinsic_metadata_hash, extra_info) ==
    [res |-> "ok",
     types_tree_root |-> tree_root,
     extrinsic_metadata_hash |-> extrinsic_metadata_hash,
     spec_version |-> extra_info.spec_version,
     spec_name |-> extra_info.spec_name,
     base58_prefix |-> extra_info.base58_prefix,
     decimals |-> extra_info.decimals,
     token_symbol |-> extra_info.token_symbol]

generate_metadata_digest(md, extra_info, seed) ==
    IF TypeInformationOf[md, seed].panicked THEN [NoDigest EXCEPT !.res = "panic"]
    ELSE MetadataDigestV1(MerkleRoot(DigestLeaves(md, seed)),
                          ExtrinsicMetadataHash(TypeInformationOf[md, seed].extrinsic_metadata),
                          extra_info)

-----------------------------------------------------------------------------
(* The state machine. *)

NoTypeInformation ==
    [types |-> [i \in {} |-> <<>>],
     extrinsic_metadata |->
        [address_ty |-> Void, call_ty |-> Void, signature_ty |-> Void,
         signed_extensions |-> <<>>],
     panicked |-> FALSE]
NotReturned == <<[id |-> -1, variants |-> <<>>]>>
NoProof == [ok |-> FALSE, leaves |-> <<>>, leaf_indices |-> {}, nodes |-> <<>>, leaf_count |-> -1]
NotBuilt == <<[type_id |-> -1, kind |-> "None", refs |-> <<>>, len |-> 0, index |-> -1]>>

Final == {"ok", "err", "panic", "prepare_panic"}

\* no type picked yet; has_basic / has_ref tell whether as_basic_type /
\* as_basic_type_ref have returned for the picked type
NotLowered ==
    [id |-> -1, seed |-> 0, has_basic |-> FALSE, basic_type |-> NoLeaf,
     has_ref |-> FALSE, type_ref |-> Void, descents |-> <<>>, found |-> <<>>]

Init ==
    /\ lowered = NotLowered
    /\ metadata \in Metadatas
    /\ pc = "idle"
    /\ extrinsic = <<>>
    /\ additional_signed = NoBytes
    /\ type_information = NoTypeInformation
    /\ is_signed = FALSE
    /\ version = -1
    /\ visitor = NoAccess
    /\ ext_idx = 0
    /\ decoded = <<>>
    /\ call_input = [extrinsic |-> <<>>, additional_signed |-> NoBytes]
    /\ accessed = NotReturned
    /\ proof = NoProof
    /\ digest = [r \in Runs |-> NoDigest]
    /\ digest_input = [r \in Runs |-> [extra_info |-> BaseInfo, hasher |-> 0]]
    /\ merkle_leaves = [p \in {"digest", "proof"} |-> NotBuilt]

\* a call of generate_metadata_digest, from start to return
GenerateMetadataDigest(run, extra_info, seed) ==
    /\ pc \in {"idle"} \cup Final
    /\ digest[run].res = "none"
    /\ digest' = [digest EXCEPT ![run] = generate_metadata_digest(metadata, extra_info, seed)]
    /\ digest_input' = [digest_input EXCEPT ![run] = [extra_info |-> extra_info,
                                                      hasher |-> seed]]
    /\ merkle_leaves' = [merkle_leaves EXCEPT !["digest"] = DigestLeaves(metadata, seed)]
    /\ UNCHANGED <<lowered, metadata, pc, extrinsic, additional_signed, type_information, is_signed,
                   version, visitor, ext_idx, decoded, call_input, accessed, proof>>

\* generate_proof_for_extrinsic is entered with its arguments and runs
\* FrameMetadataPrepared::prepare and the as_type_information of the decoder
CallGenerateProof(seed) ==
    /\ pc = "idle"
    /\ LET ti == TypeInformationOf[metadata, seed]
       IN  \E ext \in Extrinsics, add \in AdditionalSigned :
              /\ extrinsic' = ext
              /\ additional_signed' = add
              /\ call_input' = [extrinsic |-> ext, additional_signed |-> add]
              /\ \/ /\ ti.panicked
                    /\ pc' = "prepare_panic"
                    /\ UNCHANGED type_information
                 \/ /\ ~ti.panicked
                    /\ type_information' = ti
                    /\ pc' = "length"
    /\ UNCHANGED <<lowered, metadata, is_signed, version, visitor, ext_idx, decoded, accessed, proof,
                   digest, digest_input, merkle_leaves>>

\* let is_signed = version & 0b1000_0000 != 0
IsSigned(byte) == byte >= 128
\* the version byte taken whole, bit 7 included
WholeByte(byte) == byte
\* let version = version & 0b0111_1111
VersionOf(byte) == byte % 128
\* if version != 4 { return Err(..) }
VersionSupported(v) == v = 4

\* a driver that goes to the call whatever the signed flag
StraightToCall(signed) == "call"
\* is_signed.then(|| ..): the step after the version check
AfterVersion(signed) == IF signed THEN "address" ELSE "call"
\* a try_fold over signed_extensions: the step once `done` of them are
\* decoded, `again` being the step of the fold and `then` the one after it
AfterExtension(done, exts, again, then) == IF done >= Len(exts) THEN then ELSE again
\* additional_signed.map(|mut additional| ..): the step after the call
AfterCall(add, exts) ==
    IF add = NoBytes \/ Len(exts) = 0 THEN "collect" ELSE "additional"

\* the type the first try_fold decodes for a signed extension
ExtraType(se) == se.included_in_extrinsic
\* the type the second try_fold decodes against additional_signed
AdditionalType(se) == se.included_in_extrinsic

Outcome(r, then) ==
    IF r.res = "ok" THEN then ELSE IF r.res = "panic" THEN "panic" ELSE "err"

\* bytes of the extrinsic consumed so far
Consumed == Len(call_input.extrinsic) - Len(extrinsic)
ConsumedAdditional == Len(call_input.additional_signed) - Len(additional_signed)

\* one call of decode_with_visitor: the step, the type, the cursor before
\* and after it, and how it ended
Entry(step, idx, ty, pos, input, r) ==
    [step |-> step, idx |-> idx, ty |-> ty, pos |-> pos,
     next |-> Len(input) - Len(r.data), res |-> r.res]

\* Compact::<u32>::decode(&mut extrinsic)
ReadLength ==
    /\ pc = "length"
    /\ LET r == CompactDecode(extrinsic, 4)
       IN  /\ extrinsic' = r.data
           /\ pc' = IF r.ok THEN "version" ELSE "err"
    /\ UNCHANGED <<lowered, metadata, additional_signed, type_information, is_signed, version, visitor,
                   ext_idx, decoded, call_input, accessed, proof, digest, digest_input,
                   merkle_leaves>>

\* read_byte and the version check
ReadVersion ==
    /\ pc = "version"
    /\ LET r == ReadByte(extrinsic)
       IN  /\ extrinsic' = r.data
           /\ \/ /\ ~r.ok
                 /\ pc' = "err"
                 /\ UNCHANGED <<is_signed, version>>
              \/ /\ r.ok
                 /\ version' = r.value
                 /\ is_signed' = IsSigned(r.value)
                 /\ pc' = IF VersionSupported(VersionOf(r.value))
                          THEN AfterVersion(IsSigned(r.value)) ELSE "err"
    /\ UNCHANGED <<lowered, metadata, additional_signed, type_information, visitor, ext_idx, decoded,
                   call_input, accessed, proof, digest, digest_input, merkle_leaves>>

\* one decode_with_visitor on the extrinsic cursor
DecodeStep(step, idx, ty, vis, then) ==
    LET r == decode_with_visitor(type_information, ty, extrinsic, vis, TRUE)
    IN  /\ extrinsic' = r.data
        /\ visitor' = r.vis
        /\ decoded' = Append(decoded, Entry(step, idx, ty, Consumed, call_input.extrinsic, r))
        /\ pc' = Outcome(r, then)

DecodeAddress ==
    /\ pc = "address"
    /\ DecodeStep("address", 0, type_information.extrinsic_metadata.address_ty, NoAccess,
                  "signature")
    /\ UNCHANGED <<lowered, metadata, additional_signed, type_information, is_signed, version, ext_idx,
                   call_input, accessed, proof, digest, digest_input, merkle_leaves>>

DecodeSignature ==
    /\ pc = "signature"
    /\ DecodeStep("signature", 0, type_information.extrinsic_metadata.signature_ty, visitor,
                  AfterExtension(0, type_information.extrinsic_metadata.signed_extensions,
                                 "extra", "call"))
    /\ ext_idx' = 1
    /\ UNCHANGED <<lowered, metadata, additional_signed, type_information, is_signed, version,
                   call_input, accessed, proof, digest, digest_input, merkle_leaves>>

DecodeExtra ==
    /\ pc = "extra"
    /\ LET exts == type_information.extrinsic_metadata.signed_extensions
       IN  DecodeStep("extra", ext_idx, ExtraType(exts[ext_idx]), visitor,
                      AfterExtension(ext_idx, exts, "extra", "call"))
    /\ ext_idx' = ext_idx + 1
    /\ UNCHANGED <<lowered, metadata, additional_signed, type_information, is_signed, version,
                   call_input, accessed, proof, digest, digest_input, merkle_leaves>>

DecodeCall ==
    /\ pc = "call"
    /\ DecodeStep("call", 0, type_information.extrinsic_metadata.call_ty, visitor,
                  AfterCall(additional_signed,
                            type_information.extrinsic_metadata.signed_extensions))
    /\ ext_idx' = 1
    /\ UNCHANGED <<lowered, metadata, additional_signed, type_information, is_signed, version,
                   call_input, accessed, proof, digest, digest_input, merkle_leaves>>

DecodeAdditional ==
    /\ pc = "additional"
    /\ LET exts == type_information.extrinsic_metadata.signed_extensions
           ty   == AdditionalType(exts[ext_idx])
           r    == decode_with_visitor(type_information, ty, additional_signed, visitor, TRUE)
       IN  /\ additional_signed' = r.data
           /\ visitor' = r.vis
           /\ decoded' = Append(decoded, Entry("additional", ext_idx, ty, ConsumedAdditional,
                                           call_input.additional_signed, r))
           /\ pc' = Outcome(r, AfterExtension(ext_idx, exts, "additional", "collect"))
    /\ ext_idx' = ext_idx + 1
    /\ UNCHANGED <<lowered, metadata, extrinsic, type_information, is_signed, version, call_input,
                   accessed, proof, digest, digest_input, merkle_leaves>>

\* a set of numbers in ascending order (BTreeSet / BTreeMap iteration)
RECURSIVE Ascending(_)
Ascending(S) ==
    IF S = {} THEN <<>>
    ELSE LET m == CHOOSE x \in S : \A y \in S : x <= y
         IN  <<m>> \o Ascending(S \ {m})

\* visitor.accessed_types.into_iter().map(..).collect()
AccessList(vis) ==
    LET ids == Ascending(DOMAIN vis)
    IN  [i \in 1 .. Len(ids) |->
            [id |-> ids[i],
             variants |-> IF vis[ids[i]].enum THEN Ascending(vis[ids[i]].variants) ELSE <<>>]]

\* the driver returns Ok(list)
Collect ==
    /\ pc = "collect"
    /\ accessed' = AccessList(visitor)
    /\ pc' = "build_proof"
    /\ UNCHANGED <<lowered, metadata, extrinsic, additional_signed, type_information, is_signed, version,
                   visitor, ext_idx, decoded, call_input, proof, digest, digest_input,
                   merkle_leaves>>

\* MerkleTree::new(prepared.as_type_information().types).build_proof(accessed_types)
BuildProof(seed) ==
    /\ pc = "build_proof"
    /\ LET leaves == ProofLeaves(metadata, seed)
           p      == build_proof(leaves, accessed)
       IN  /\ proof' = p
           /\ merkle_leaves' = [merkle_leaves EXCEPT !["proof"] = leaves]
           /\ pc' = IF p.ok THEN "ok" ELSE "err"
    /\ UNCHANGED <<lowered, metadata, extrinsic, additional_signed, type_information, is_signed, version,
                   visitor, ext_idx, decoded, call_input, accessed, digest, digest_input>>

Next ==
    \/ \E seed \in HashSeeds : CallGenerateProof(seed)
    \/ ReadLength
    \/ ReadVersion
    \/ DecodeAddress
    \/ DecodeSignature
    \/ DecodeExtra
    \/ DecodeCall
    \/ DecodeAdditional
    \/ Collect
    \/ \E seed \in HashSeeds : BuildProof(seed)
    \/ \E seed \in HashSeeds : pc = "ok" /\ GenerateMetadataDigest(1, BaseInfo, seed)

\* a proof is generated and, once it is returned, the digest it is verified against
Spec == Init /\ [][Next]_vars

\* two runs of generate_metadata_digest over one metadata, each with its
\* own ExtraInfo and its own hasher state
NextDigest ==
    \E run \in Runs, extra_info \in ExtraInfos, seed \in HashSeeds :
        GenerateMetadataDigest(run, extra_info, seed)

SpecDigest == Init /\ [][NextDigest]_vars

\* The lowering of one type of the registry: Type::as_basic_type and
\* Type::as_basic_type_ref called on it, in either order.
InitLowering ==
    /\ lowered = NotLowered
    /\ metadata \in LoweringMetadatas
    /\ pc = "idle"
    /\ extrinsic = <<>>
    /\ additional_signed = NoBytes
    /\ type_information = NoTypeInformation
    /\ is_signed = FALSE
    /\ version = -1
    /\ visitor = NoAccess
    /\ ext_idx = 0
    /\ decoded = <<>>
    /\ call_input = [extrinsic |-> <<>>, additional_signed |-> NoBytes]
    /\ accessed = NotReturned
    /\ proof = NoProof
    /\ digest = [r \in Runs |-> NoDigest]
    /\ digest_input = [r \in Runs |-> [extra_info |-> BaseInfo, hasher |-> 0]]
    /\ merkle_leaves = [p \in {"digest", "proof"} |-> NotBuilt]

LoweringUnchanged ==
    UNCHANGED <<metadata, pc, extrinsic, additional_signed, type_information, is_signed,
                version, visitor, ext_idx, decoded, call_input, accessed, proof, digest,
                digest_input, merkle_leaves>>

\* a type of the registry is taken up, its collector running under `seed`
PickType(id, seed) ==
    /\ lowered' = [NotLowered EXCEPT !.id = id, !.seed = seed]
    /\ LoweringUnchanged

AsBasicType ==
    /\ lowered.id # -1
    /\ ~lowered.has_basic
    /\ lowered' = [lowered EXCEPT
                      !.has_basic = TRUE,
                      !.basic_type = as_basic_type(metadata.types, lowered.seed, lowered.id),
                      !.descents = VisitType(metadata.types, lowered.seed, lowered.id).descents,
                      !.found = CollectPrimitives(metadata.types, lowered.seed, lowered.id)]
    /\ LoweringUnchanged

AsBasicTypeRef ==
    /\ lowered.id # -1
    /\ ~lowered.has_ref
    /\ lowered' = [lowered EXCEPT
                      !.has_ref = TRUE,
                      !.type_ref = as_basic_type_ref(metadata.types, lowered.seed, lowered.id),
                      !.descents = VisitType(metadata.types, lowered.seed, lowered.id).descents,
                      !.found = CollectPrimitives(metadata.types, lowered.seed, lowered.id)]
    /\ LoweringUnchanged

NextLowering ==
    \/ \E id \in Ids(metadata.types), seed \in HashSeeds : PickType(id, seed)
    \/ AsBasicType
    \/ AsBasicTypeRef

SpecLowering == InitLowering /\ [][NextLowering]_vars

-----------------------------------------------------------------------------
(* Properties of the two public functions. *)

DigestReturned(run) == digest[run].res # "none"
ProofReturned == pc = "ok"

\* C1: whenever generate_proof_for_extrinsic succeeds, re-folding the
\* returned proof (disclosed leaves, sibling hashes, leaf count) gives the
\* types_tree_root generate_metadata_digest computes for the same registry.
ProofSoundness ==
    (ProofReturned /\ digest[1].res = "ok") => Refold(proof) = digest[1].types_tree_root

\* C1: a proof that discloses some leaves, hides others and carries sibling
\* hashes of more than one level was returned and its digest computed.
ProofSoundnessWitness ==
    /\ ProofReturned
    /\ digest[1].res = "ok"
    /\ Cardinality(proof.leaf_indices) >= 2
    /\ Cardinality(proof.leaf_indices) < proof.leaf_count
    /\ Len(proof.nodes) >= 2
    /\ call_input.additional_signed # NoBytes

\* C2: two runs of generate_metadata_digest on the same registry and the
\* same chain info return the same value, whatever the hasher state of the
\* visited-set of each run.
DigestDeterminism ==
    (DigestReturned(1) /\ DigestReturned(2)
        /\ digest_input[1].extra_info = digest_input[2].extra_info)
    => digest[1] = digest[2]

\* C2: two runs with the same chain info and different hasher states have
\* both returned a digest over a tree of several leaves.
DigestDeterminismWitness ==
    /\ digest[1].res = "ok"
    /\ digest[2].res = "ok"
    /\ digest_input[1].extra_info = digest_input[2].extra_info
    /\ digest_input[1].hasher # digest_input[2].hasher
    /\ Len(merkle_leaves["digest"]) >= 2

ExtraInfoOf(d) ==
    [spec_version |-> d.spec_version, spec_name |-> d.spec_name,
     base58_prefix |-> d.base58_prefix, decimals |-> d.decimals,
     token_symbol |-> d.token_symbol]

\* C3: the V1 value holds the five chain-info fields as they were passed,
\* so two runs on one registry whose chain infos differ in any field
\* return different digests.
ChainInfoInjective ==
    /\ \A run \in Runs :
          digest[run].res = "ok" => ExtraInfoOf(digest[run]) = digest_input[run].extra_info
    /\ (digest[1].res = "ok" /\ digest[2].res = "ok"
           /\ digest_input[1].extra_info # digest_input[2].extra_info)
       => digest[1] # digest[2]

\* C3: two digests were returned for chain infos that differ in `decimals`
\* only.
ChainInfoInjectiveWitness ==
    /\ digest[1].res = "ok"
    /\ digest[2].res = "ok"
    /\ digest_input[1].extra_info = BaseInfo
    /\ digest_input[2].extra_info = [BaseInfo EXCEPT !.decimals = 2]

\* C4: the leaves (content and order) the proof path builds its tree over
\* are the leaves the digest path computes types_tree_root over, and the
\* type information handed to the decoder describes the same leaves.
SameLeaves ==
    /\ (merkle_leaves["proof"] # NotBuilt /\ merkle_leaves["digest"] # NotBuilt)
       => merkle_leaves["proof"] = merkle_leaves["digest"]
    /\ merkle_leaves["proof"] # NotBuilt
       => TypesIntoIter(type_information.types, 0) = merkle_leaves["proof"]

\* C4: both paths have built their tree, over several leaves, after an
\* extrinsic was decoded against the type information.
SameLeavesWitness ==
    /\ merkle_leaves["proof"] # NotBuilt
    /\ merkle_leaves["digest"] # NotBuilt
    /\ Len(merkle_leaves["proof"]) >= 2
    /\ Len(decoded) >= 1

-----------------------------------------------------------------------------
(* Properties of decode_extrinsic_and_collect_type_ids. *)

ExtrinsicMetadataInUse == type_information.extrinsic_metadata
Step(step, idx, ty) == [step |-> step, idx |-> idx, ty |-> ty]

\* the decode_with_visitor calls on the extrinsic cursor a complete run makes
ExpectedSteps ==
    (IF is_signed
     THEN <<Step("address", 0, ExtrinsicMetadataInUse.address_ty),
            Step("signature", 0, ExtrinsicMetadataInUse.signature_ty)>>
          \o [i \in 1 .. Len(ExtrinsicMetadataInUse.signed_extensions) |->
                 Step("extra", i, ExtrinsicMetadataInUse.signed_extensions[i].included_in_extrinsic)]
     ELSE <<>>)
    \o <<Step("call", 0, ExtrinsicMetadataInUse.call_ty)>>

IsOnExtrinsic(e) == e.step # "additional"
OnExtrinsic == SelectSeq(decoded, IsOnExtrinsic)

\* C5: the driver decodes on one advancing cursor, after length and version
\* byte: address, signature and every extension's included_in_extrinsic in
\* declared order only when bit 7 is set, then the call; unsigned goes
\* straight to the call; a step that fails is the last step.
DriverOrder ==
    /\ Len(OnExtrinsic) <= Len(ExpectedSteps)
    /\ \A i \in 1 .. Len(OnExtrinsic) :
          /\ OnExtrinsic[i].step = ExpectedSteps[i].step
          /\ OnExtrinsic[i].idx = ExpectedSteps[i].idx
          /\ OnExtrinsic[i].ty = ExpectedSteps[i].ty
    /\ \A i \in 1 .. Len(OnExtrinsic) - 1 : OnExtrinsic[i + 1].pos = OnExtrinsic[i].next
    /\ OnExtrinsic # <<>> => (version # -1 /\ OnExtrinsic[1].pos >= 2)
    /\ (version # -1 /\ ~is_signed) =>
          \A i \in 1 .. Len(decoded) : decoded[i].step \in {"call", "additional"}
    /\ \A i \in 1 .. Len(decoded) - 1 : decoded[i].res = "ok"
    /\ (decoded # <<>> /\ decoded[Len(decoded)].res # "ok") => pc \in {"err", "panic"}
    /\ pc \in {"collect", "build_proof", "ok"} => Len(OnExtrinsic) = Len(ExpectedSteps)

\* C5: a signed extrinsic over two signed extensions was decoded to the end:
\* address, signature, both extensions and the call.
DriverOrderWitness ==
    /\ pc = "collect"
    /\ is_signed
    /\ Len(ExtrinsicMetadataInUse.signed_extensions) = 2
    /\ Len(OnExtrinsic) = 5
    /\ OnExtrinsic[5].next > OnExtrinsic[5].pos

\* C6: with additional_signed supplied, after the call the driver decodes
\* each signed extension's included_in_signed_data, in declared order,
\* against the additional_signed bytes (never its included_in_extrinsic).
AdditionalSignedData ==
    \A i \in 1 .. Len(decoded) :
        decoded[i].step = "additional" =>
            /\ decoded[i].ty =
                 ExtrinsicMetadataInUse.signed_extensions[decoded[i].idx].included_in_signed_data
            /\ \E j \in 1 .. i - 1 : decoded[j].step = "call"
            /\ decoded[i].idx = 1 \/ (decoded[i - 1].step = "additional"
                                        /\ decoded[i - 1].idx = decoded[i].idx - 1)

\* C6: an extension whose two types differ was decoded against the
\* additional_signed bytes.
AdditionalSignedDataWitness ==
    \E i \in 1 .. Len(decoded) :
        /\ decoded[i].step = "additional"
        /\ decoded[i].res = "ok"
        /\ ExtrinsicMetadataInUse.signed_extensions[decoded[i].idx].included_in_signed_data
              # ExtrinsicMetadataInUse.signed_extensions[decoded[i].idx].included_in_extrinsic

\* C7: a version byte whose low 7 bits are not 4 ends the driver with an
\* error before any type is decoded and without an access list, whatever
\* bit 7; low 7 bits equal to 4 pass the version check.
VersionCheck ==
    /\ (version # -1 /\ version % 128 # 4) =>
          (pc = "err" /\ decoded = <<>> /\ accessed = NotReturned /\ visitor = NoAccess)
    /\ (version # -1 /\ version % 128 = 4) => (pc # "err" \/ decoded # <<>>)

\* C7: a version byte with bit 7 set and low bits 5 was rejected, bytes
\* still unread behind it.
VersionCheckWitness ==
    /\ version = 133
    /\ pc = "err"
    /\ extrinsic # <<>>

\* The values a decoding consumes, read off the bytes alone: the set of
\* <<unique_id, variant index>> of every value of a by-id type that lies in
\* `data` when the types of `todo` are decoded one after the other (index -1
\* for a type that is no enumeration).  Every element of a sequence in the
\* registries of the model takes at least one byte, so a length beyond the
\* bytes left fails within Len(data) + 1 elements.
NoVariant == 0 - 1
Copies(ty, n) == [i \in 1 .. n |-> ty]
Least(a, b) == IF a <= b THEN a ELSE b

RECURSIVE Taken(_, _, _, _)
Taken(ti, todo, data, acc) ==
    IF todo = <<>> THEN acc
    ELSE IF Head(todo).tag = "Void" THEN Taken(ti, Tail(todo), data, acc)
    ELSE IF Head(todo).tag # "ById"
    THEN IF DecodePrimitive(Head(todo).tag, data).ok
         THEN Taken(ti, Tail(todo), DecodePrimitive(Head(todo).tag, data).data, acc)
         ELSE acc
    ELSE IF Head(todo).id \notin DOMAIN ti.types THEN acc
    ELSE LET id    == Head(todo).id
             types == ti.types[id]
             kind  == types[1].kind
         IN  CASE kind = "Array" ->
                    Taken(ti, Copies(types[1].refs[1], types[1].len) \o Tail(todo), data,
                          acc \cup {<<id, NoVariant>>})
               [] kind \in {"Composite", "Tuple"} ->
                    Taken(ti, types[1].refs \o Tail(todo), data, acc \cup {<<id, NoVariant>>})
               [] kind = "Enumeration" ->
                    IF data = <<>> \/ \A i \in 1 .. Len(types) : types[i].index # data[1]
                    THEN acc
                    ELSE Taken(ti,
                               types[CHOOSE i \in 1 .. Len(types) : types[i].index = data[1]].refs
                                  \o Tail(todo),
                               Tail(data), acc \cup {<<id, data[1]>>})
               [] kind = "Sequence" ->
                    IF ~CompactDecode(data, 4).ok THEN acc
                    ELSE Taken(ti,
                               Copies(types[1].refs[1],
                                      Least(CompactDecode(data, 4).value,
                                            Len(CompactDecode(data, 4).data) + 1))
                                  \o Tail(todo),
                               CompactDecode(data, 4).data, acc \cup {<<id, NoVariant>>})
               [] OTHER ->
                    IF DecodeBits(data, NumBytes(types[1].refs[1])).ok
                    THEN Taken(ti, Tail(todo),
                               DecodeBits(data, NumBytes(types[1].refs[1])).data,
                               acc \cup {<<id, NoVariant>>})
                    ELSE acc

\* the bytes one call of decode_with_visitor started on
InputOf(e) ==
    Drop(IF e.step = "additional" THEN call_input.additional_signed
         ELSE call_input.extrinsic, e.pos)

\* everything the calls of the run consumed
TakenByRun ==
    UNION {Taken(type_information, <<decoded[i].ty>>, InputOf(decoded[i]), {}) :
              i \in 1 .. Len(decoded)}

AccessListReturned == accessed # NotReturned
ToSet(s) == {s[i] : i \in 1 .. Len(s)}
IsEnumeration(id) == type_information.types[id][1].kind = "Enumeration"

\* C8: the returned access list names an id only if a value of that type
\* was visited; for an enumeration the variant list is exactly the variant
\* indices taken in the decoded bytes; for every other id it is empty; an
\* inlined primitive or compact adds no entry.
AccessListExact ==
    AccessListReturned =>
        \A i \in 1 .. Len(accessed) :
            /\ accessed[i].id \in DOMAIN type_information.types
            /\ \E t \in TakenByRun : t[1] = accessed[i].id
            /\ IF IsEnumeration(accessed[i].id)
               THEN ToSet(accessed[i].variants)
                       = {t[2] : t \in {u \in TakenByRun : u[1] = accessed[i].id}}
               ELSE accessed[i].variants = <<>>

\* C8: an access list was returned for a call that took a variant carrying
\* a field and decoded an inlined primitive.
AccessListExactWitness ==
    /\ AccessListReturned
    /\ \E i \in 1 .. Len(accessed) : Len(accessed[i].variants) >= 1
    /\ \E i \in 1 .. Len(accessed) :
          ~IsEnumeration(accessed[i].id) /\ accessed[i].variants = <<>>
    /\ \E i \in 1 .. Len(decoded) : decoded[i].ty.tag = "U8"

\* C9: every sub-value consumed from the input is observed by the
\* collector: every id and every variant index that occurs in any element
\* of a sequence or an array, and in any field of a composite, a tuple or a
\* variant, is in the returned access list.
AllObserved ==
    AccessListReturned =>
        \A t \in TakenByRun :
            \E i \in 1 .. Len(accessed) :
                /\ accessed[i].id = t[1]
                /\ t[2] # NoVariant => t[2] \in ToSet(accessed[i].variants)

\* C9: an access list was returned for a run that decoded a sequence of
\* two or more elements.
AllObservedWitness ==
    /\ AccessListReturned
    /\ \E i \in 1 .. Len(decoded) :
          /\ decoded[i].ty = ById(3)
          /\ decoded[i].next - decoded[i].pos >= 3

\* C10: the driver ends in Ok or Err, never in a panic: a Void TypeRef
\* records nothing and does not abort, and add_variant never meets an
\* entry recorded as a non-enumeration.
NeverPanics == pc # "panic"

\* C10: a value whose TypeRef is Void was handed to decode_with_visitor.
NeverPanicsWitness ==
    \E i \in 1 .. Len(decoded) : decoded[i].ty = Void

-----------------------------------------------------------------------------
(* Properties of the leaf vector and of the lowering. *)

IsVariantLeaf(leaf) == leaf.kind = "Enumeration"

\* adjacent leaves ascend by unique_id, or share the id as variants of one
\* enumeration and ascend by variant index
Ascends(leaves) ==
    \A i \in 1 .. Len(leaves) - 1 :
        \/ leaves[i].type_id < leaves[i + 1].type_id
        \/ /\ leaves[i].type_id = leaves[i + 1].type_id
           /\ IsVariantLeaf(leaves[i])
           /\ IsVariantLeaf(leaves[i + 1])
           /\ leaves[i].index < leaves[i + 1].index

RefsOf(reg, id) ==
    {TypeOf(reg, id).refs[i] : i \in 1 .. Len(TypeOf(reg, id).refs)}
        \cup UNION {{TypeOf(reg, id).variants[v].fields[i] :
                        i \in 1 .. Len(TypeOf(reg, id).variants[v].fields)} :
                    v \in 1 .. Len(TypeOf(reg, id).variants)}

RECURSIVE Closure(_, _)
Closure(reg, S) ==
    IF UNION {RefsOf(reg, i) : i \in S} \subseteq S THEN S
    ELSE Closure(reg, S \cup UNION {RefsOf(reg, i) : i \in S})

Reachable(reg, id) == Closure(reg, RefsOf(reg, id))
ReachesKind(reg, id, kinds) == \E j \in Reachable(reg, id) : TypeOf(reg, j).kind \in kinds

LoweredKind == TypeOf(metadata.types, lowered.id).kind

\* the types as_basic_type is to return None for
HasNoLeaf ==
    \/ LoweredKind \in {"Primitive", "Compact"}
    \/ /\ LoweredKind \in {"Composite", "Tuple"}
       /\ ~ReachesKind(metadata.types, lowered.id, {"Primitive"})

Wrapped == TypeOf(metadata.types, TypeOf(metadata.types, lowered.id).refs[1])
IsUnsignedPrimitive(type_def) == type_def.kind = "Primitive" /\ type_def.prim \in CompactPrims
\* an error value returned by the lowering
IsError(type_ref) == type_ref.tag = "Err"

\* C13: a reference to Compact<X> lowers to CompactU8 .. CompactU128 only
\* when X is the unsigned integer primitive of that width; for every other
\* X the lowering returns an error value: no inlined reference, no abort.
CompactLowering ==
    (lowered.has_ref /\ LoweredKind = "Compact") =>
        IF IsUnsignedPrimitive(Wrapped)
        THEN lowered.type_ref = Inl("Compact" \o Wrapped.prim)
        ELSE IsError(lowered.type_ref)

\* C13: as_basic_type_ref was called on a Compact over something that is
\* no unsigned integer primitive.
CompactLoweringWitness ==
    /\ lowered.has_ref
    /\ LoweredKind = "Compact"
    /\ ~IsUnsignedPrimitive(Wrapped)

LeafKinds == {"Enumeration", "Sequence", "Array", "BitSequence"}

\* C14: a Composite or Tuple is inlined as Void, and has no leaf, exactly
\* when nothing that takes bytes on the wire is reachable from it; when an
\* enumeration, a sequence, an array or a bit sequence is reachable, even
\* one that reaches no primitive, it is kept by id with its own leaf.
VoidExactly ==
    (lowered.has_ref /\ lowered.has_basic /\ LoweredKind \in {"Composite", "Tuple"}) =>
        IF ReachesKind(metadata.types, lowered.id, LeafKinds \cup {"Primitive"})
        THEN lowered.type_ref = ById(lowered.id) /\ lowered.basic_type.kind = LoweredKind
        ELSE lowered.type_ref = Void /\ lowered.basic_type.kind = "None"

\* C14: a composite or tuple that reaches a leaf-emitting type but no
\* primitive was lowered by both functions.
VoidExactlyWitness ==
    /\ lowered.has_ref
    /\ lowered.has_basic
    /\ LoweredKind \in {"Composite", "Tuple"}
    /\ ReachesKind(metadata.types, lowered.id, LeafKinds)
    /\ ~ReachesKind(metadata.types, lowered.id, {"Primitive"})

\* the leaf records as_basic_type returned
LeavesOfLowered ==
    IF lowered.basic_type.kind = "None" THEN <<>> ELSE <<lowered.basic_type>>

\* C15: an enumeration with K variants is lowered to K records, one per
\* variant and carrying its index, not to one record for all variants.
OneLeafPerVariant ==
    (lowered.has_basic /\ LoweredKind = "Enumeration") =>
        /\ Len(LeavesOfLowered) = Len(TypeOf(metadata.types, lowered.id).variants)
        /\ \A i \in 1 .. Len(LeavesOfLowered) :
              LeavesOfLowered[i].index
                 = SortByIndex(TypeOf(metadata.types, lowered.id).variants)[i].index

\* C15: as_basic_type has returned for an enumeration of several variants.
OneLeafPerVariantWitness ==
    /\ lowered.has_basic
    /\ LoweredKind = "Enumeration"
    /\ Len(TypeOf(metadata.types, lowered.id).variants) >= 2

DriverReturnedOk == pc \in {"collect", "build_proof", "ok"}

\* C16: when the driver returns Ok no byte of the extrinsic is left behind
\* the call, and none of additional_signed when it was supplied.
FullyConsumed ==
    DriverReturnedOk =>
        /\ extrinsic = <<>>
        /\ call_input.additional_signed # NoBytes => additional_signed = <<>>

\* C16: the driver returned Ok for a call with additional_signed supplied.
FullyConsumedWitness ==
    /\ DriverReturnedOk
    /\ call_input.additional_signed # NoBytes
    /\ Len(decoded) >= 2

HasDuplicate(seq) == \E i, j \in 1 .. Len(seq) : i # j /\ seq[i] = seq[j]

\* C17: the primitive-collecting traversal ends on every type graph, also
\* on a self-referential one: it descends into each reachable unique_id
\* once, the first time the id enters the visited set, and never again.
TraversalVisitsOnce ==
    (lowered.has_basic \/ lowered.has_ref) =>
        /\ ~HasDuplicate(lowered.descents)
        /\ ToSet(lowered.descents) = Reachable(metadata.types, lowered.id)
        /\ Len(lowered.descents) <= Len(metadata.types)

\* C17: the traversal has ended on a type that reaches itself.
TraversalVisitsOnceWitness ==
    /\ lowered.has_basic
    /\ lowered.id \in Reachable(metadata.types, lowered.id)
    /\ Len(lowered.descents) >= 2
    /\ lowered.found # <<>>

IsInlined(type_ref) == type_ref.tag \notin {"ById", "PANIC", "Err"}

\* C18: on every type as_basic_type_ref returns the by-id reference to it
\* exactly when as_basic_type returns a leaf, and an inlined primitive,
\* compact or void reference exactly when as_basic_type returns None.
LoweringsAgree ==
    (lowered.has_basic /\ lowered.has_ref) =>
        /\ lowered.type_ref = ById(lowered.id) <=> lowered.basic_type.kind # "None"
        /\ IsInlined(lowered.type_ref) <=> lowered.basic_type.kind = "None"

\* C18: both functions were called on a Compact, for which as_basic_type
\* returns None.
LoweringsAgreeWitness ==
    /\ lowered.has_basic
    /\ lowered.has_ref
    /\ LoweredKind = "Compact"
    /\ lowered.basic_type.kind = "None"

====
